---- MODULE Spec2Model ----
(***************************************************************************)
(* The starfield scene component of src/src/App.vue as a state machine:    *)
(* the mount / unmount lifecycle hooks, the resize handler, the animation  *)
(* loop, and the star generation loop.  JavaScript numbers are IEEE-754    *)
(* binary64 values and Float32Array slots are binary32 values; both are    *)
(* modelled bit-exactly (round to nearest, ties to even) on top of natural *)
(* numbers of unbounded size.                                              *)
(***************************************************************************)
EXTENDS Integers, Sequences, FiniteSets, TLC

(***************************************************************************)
(* Natural numbers of unbounded size: little-endian sequences of limbs in  *)
(* base 2^15, without leading zero limbs; zero is the empty sequence.      *)
(***************************************************************************)
Base == 2^15

RECURSIVE BNorm(_)
BNorm(a) ==
  IF a = <<>> THEN a
  ELSE IF a[Len(a)] = 0 THEN BNorm(SubSeq(a, 1, Len(a) - 1)) ELSE a

RECURSIVE AddFrom(_, _, _, _)
AddFrom(a, b, i, c) ==
  IF i > Len(a) /\ i > Len(b)
  THEN (IF c = 0 THEN <<>> ELSE <<c>>)
  ELSE LET t == (IF i <= Len(a) THEN a[i] ELSE 0)
                + (IF i <= Len(b) THEN b[i] ELSE 0) + c
       IN  <<t % Base>> \o AddFrom(a, b, i + 1, t \div Base)

BAdd(a, b) == AddFrom(a, b, 1, 0)

RECURSIVE SubFrom(_, _, _, _)
SubFrom(a, b, i, br) ==
  IF i > Len(a) THEN <<>>
  ELSE LET t == a[i] - (IF i <= Len(b) THEN b[i] ELSE 0) - br
       IN  <<(t + Base) % Base>> \o SubFrom(a, b, i + 1, IF t < 0 THEN 1 ELSE 0)

\* a - b for a >= b
BSub(a, b) == BNorm(SubFrom(a, b, 1, 0))

RECURSIVE CmpFrom(_, _, _)
CmpFrom(a, b, i) ==
  IF i = 0 THEN 0
  ELSE IF a[i] < b[i] THEN -1
  ELSE IF a[i] > b[i] THEN 1
  ELSE CmpFrom(a, b, i - 1)

\* -1, 0 or 1 as a < b, a = b, a > b
BCmp(a, b) ==
  IF Len(a) < Len(b) THEN -1
  ELSE IF Len(a) > Len(b) THEN 1
  ELSE CmpFrom(a, b, Len(a))

RECURSIVE MulFrom(_, _, _, _)
MulFrom(a, k, i, c) ==
  IF i > Len(a)
  THEN (IF c = 0 THEN <<>> ELSE <<c>>)
  ELSE LET t == a[i] * k + c
       IN  <<t % Base>> \o MulFrom(a, k, i + 1, t \div Base)

\* a * k for a limb k
BMulSmall(a, k) == IF k = 0 \/ a = <<>> THEN <<>> ELSE MulFrom(a, k, 1, 0)

ShiftLimbs(a, n) == IF a = <<>> THEN a ELSE [i \in 1..n |-> 0] \o a

RECURSIVE MulAcc(_, _, _)
MulAcc(a, b, j) ==
  IF j > Len(b) THEN <<>>
  ELSE BAdd(ShiftLimbs(BMulSmall(a, b[j]), j - 1), MulAcc(a, b, j + 1))

BMul(a, b) == MulAcc(a, b, 1)

\* a * 2^s
BShl(a, s) == ShiftLimbs(BMulSmall(a, 2^(s % 15)), s \div 15)

RECURSIVE DivSmallFrom(_, _, _, _)
DivSmallFrom(a, k, i, r) ==
  IF i = 0 THEN <<>>
  ELSE LET t == r * Base + a[i]
       IN  DivSmallFrom(a, k, i - 1, t % k) \o <<t \div k>>

\* floor(a / 2^s)
BShr(a, s) ==
  LET d == s \div 15
  IN  IF d >= Len(a) THEN <<>>
      ELSE LET h == SubSeq(a, d + 1, Len(a))
           IN  BNorm(DivSmallFrom(h, 2^(s % 15), Len(h), 0))

RECURSIVE BitLenSmall(_)
BitLenSmall(n) == IF n = 0 THEN 0 ELSE 1 + BitLenSmall(n \div 2)

\* the number of significant bits of a
BitLen(a) ==
  IF a = <<>> THEN 0 ELSE 15 * (Len(a) - 1) + BitLenSmall(a[Len(a)])

BOdd(a) == a # <<>> /\ a[1] % 2 = 1

\* bit i (from 0) of a
Bit(a, i) ==
  LET j == i \div 15 + 1
  IN  IF j > Len(a) THEN 0 ELSE (a[j] \div 2^(i % 15)) % 2

BOne == <<1>>

BDouble(a, bit) == BAdd(BAdd(a, a), IF bit = 1 THEN BOne ELSE <<>>)

\* Long division and the square root go bit by bit, one limb's worth of bits
\* per inner recursion, so that no recursion is deeper than a limb or the
\* number of limbs.
RECURSIVE DivBits(_, _, _, _, _, _)
DivBits(a, d, hi, lo, q, r) ==
  IF hi < lo THEN <<q, r>>
  ELSE LET r2 == BDouble(r, Bit(a, hi))
           ge == BCmp(r2, d) >= 0
           q2 == BDouble(q, IF ge THEN 1 ELSE 0)
           r3 == IF ge THEN BSub(r2, d) ELSE r2
       IN  IF Len(q2) + Len(r3) >= 0
           THEN DivBits(a, d, hi - 1, lo, q2, r3) ELSE <<>>

RECURSIVE DivLimbs(_, _, _, _)
DivLimbs(a, d, j, qr) ==
  IF j = 0 THEN qr
  ELSE LET n == DivBits(a, d, 15 * j - 1, 15 * (j - 1), qr[1], qr[2])
       IN  IF Len(n) = 2 THEN DivLimbs(a, d, j - 1, n) ELSE <<>>

\* <<floor(a / d), a mod d>> for d > 0
BDivMod(a, d) == DivLimbs(a, d, Len(a), <<<<>>, <<>>>>)

RECURSIVE SqrtBits(_, _, _, _)
SqrtBits(a, hi, lo, r) ==
  IF hi < lo THEN r
  ELSE LET c == BAdd(r, BShl(BOne, hi))
       IN  IF BCmp(BMul(c, c), a) <= 0
           THEN SqrtBits(a, hi - 1, lo, c)
           ELSE SqrtBits(a, hi - 1, lo, r)

RECURSIVE SqrtLimbs(_, _, _)
SqrtLimbs(a, j, r) ==
  IF j = 0 THEN r
  ELSE LET n == SqrtBits(a, 15 * j - 1, 15 * (j - 1), r)
       IN  IF Len(n) >= 0 THEN SqrtLimbs(a, j - 1, n) ELSE <<>>

\* floor(sqrt(a))
BSqrt(a) == SqrtLimbs(a, Len(a), <<>>)

(***************************************************************************)
(* IEEE-754 values.  A value is a record [k, s, m, e]: k is "fin", "inf"   *)
(* or "nan", s the sign bit, and a finite value is (-1)^s * m * 2^e.  In a *)
(* format [p, emin, emax] the canonical finite value has 2^(p-1) <= m <    *)
(* 2^p and emin <= e <= emax (normal), or m < 2^(p-1) and e = emin         *)
(* (subnormal and zero).                                                   *)
(***************************************************************************)
Binary64 == [p |-> 53, emin |-> -1074, emax |-> 971]

Binary32 == [p |-> 24, emin |-> -149, emax |-> 104]

Fin(s, m, e) == [k |-> "fin", s |-> s, m |-> m, e |-> e]

Inf(s) == [k |-> "inf", s |-> s, m |-> <<>>, e |-> 0]

NaN == [k |-> "nan", s |-> 0, m |-> <<>>, e |-> 0]

IsZero(x) == x.k = "fin" /\ x.m = <<>>

Max(a, b) == IF a >= b THEN a ELSE b

Min(a, b) == IF a <= b THEN a ELSE b

Xor(a, b) == (a + b) % 2

\* (-1)^s * m * 2^e for a significand and exponent that fit format fmt, or
\* the infinity when the exponent is above the format's range
Pack(fmt, s, m, e) == IF e > fmt.emax THEN Inf(s) ELSE Fin(s, m, e)

\* a rounded significand q1 at exponent et: one bit too long when the rounding
\* carried into a new bit
Renormal(fmt, s, q1, et) ==
  IF BitLen(q1) > fmt.p THEN Pack(fmt, s, BShr(q1, 1), et + 1)
  ELSE Pack(fmt, s, q1, et)

\* the truncated significand q goes up when the discarded part is above half
\* (c = 1), or is half (c = 0) and q is odd
RoundUp(fmt, s, q, et, c) ==
  Renormal(fmt, s, IF c = 1 \/ (c = 0 /\ BOdd(q)) THEN BAdd(q, BOne) ELSE q, et)

\* m = q * 2^sh + rem: compares rem with half a unit of q
RoundQuotient(fmt, s, m, sh, et, q) ==
  RoundUp(fmt, s, q, et, BCmp(BSub(m, BShl(q, sh)), BShl(BOne, sh - 1)))

\* m * 2^e at the target exponent et: exact when et <= e
RoundAt(fmt, s, m, e, et) ==
  IF et <= e THEN Pack(fmt, s, BShl(m, e - et), et)
  ELSE RoundQuotient(fmt, s, m, et - e, et, BShr(m, et - e))

\* (-1)^s * m * 2^e rounded into format fmt: to nearest, ties to even
RoundTo(fmt, s, m, e) ==
  IF m = <<>> THEN Fin(s, <<>>, fmt.emin)
  ELSE RoundAt(fmt, s, m, e, Max(e + BitLen(m) - fmt.p, fmt.emin))

\* the exact sum of two finite values, as <<sign, m, e>>; an exact zero sum is +0
\* unless both operands are negative
XAddAligned(xs, a, ys, b, e0) ==
  IF xs = ys THEN <<xs, BAdd(a, b), e0>>
  ELSE IF a = b THEN <<0, <<>>, e0>>
  ELSE IF BCmp(a, b) = 1 THEN <<xs, BSub(a, b), e0>>
  ELSE <<ys, BSub(b, a), e0>>

XAddAt(x, y, e0) ==
  XAddAligned(x.s, BShl(x.m, x.e - e0), y.s, BShl(y.m, y.e - e0), e0)

XAdd(x, y) == XAddAt(x, y, Min(x.e, y.e))

\* -1, 0, 1 as x < y, x = y, x > y for finite values (zeros of either sign equal)
Neg(x) == [x EXCEPT !.s = 1 - x.s]

XSign(d) == IF d[2] = <<>> THEN 0 ELSE IF d[1] = 1 THEN -1 ELSE 1

XCmp(x, y) == XSign(XAdd(x, Neg(y)))

\* the triple <<sign, m, e>> as a value, not rounded
RoundlessTriple(r) == Fin(r[1], r[2], r[3])

\* the triple <<sign, m, e>> rounded into format fmt
RoundTriple(fmt, r) == RoundTo(fmt, r[1], r[2], r[3])

\* x + y in format fmt
FAdd(fmt, x, y) ==
  IF x.k = "nan" \/ y.k = "nan" THEN NaN
  ELSE IF x.k = "inf" /\ y.k = "inf" THEN (IF x.s = y.s THEN x ELSE NaN)
  ELSE IF x.k = "inf" THEN x
  ELSE IF y.k = "inf" THEN y
  ELSE RoundTriple(fmt, XAdd(x, y))

\* x * y in format fmt
FMul(fmt, x, y) ==
  IF x.k = "nan" \/ y.k = "nan" THEN NaN
  ELSE IF x.k = "inf" \/ y.k = "inf"
       THEN (IF IsZero(x) \/ IsZero(y) THEN NaN ELSE Inf(Xor(x.s, y.s)))
  ELSE RoundTo(fmt, Xor(x.s, y.s), BMul(x.m, y.m), x.e + y.e)

\* a truncated result with its sticky bit: set when the truncation was inexact
Sticky(m, exact) == BDouble(m, IF exact THEN 0 ELSE 1)

QuotientSticky(qr) == Sticky(qr[1], qr[2] = <<>>)

\* x / y with the dividend scaled by 2^k
FDivScaled(fmt, x, y, k) ==
  RoundTo(fmt, Xor(x.s, y.s), QuotientSticky(BDivMod(BShl(x.m, k), y.m)),
          x.e - y.e - k - 1)

\* x / y in format fmt: the quotient is computed to p + 2 bits and a sticky bit
FDiv(fmt, x, y) ==
  IF x.k = "nan" \/ y.k = "nan" THEN NaN
  ELSE IF x.k = "inf" THEN (IF y.k = "inf" THEN NaN ELSE Inf(Xor(x.s, y.s)))
  ELSE IF y.k = "inf" THEN Fin(Xor(x.s, y.s), <<>>, fmt.emin)
  ELSE IF IsZero(y) THEN (IF IsZero(x) THEN NaN ELSE Inf(Xor(x.s, y.s)))
  ELSE IF IsZero(x) THEN Fin(Xor(x.s, y.s), <<>>, fmt.emin)
  ELSE FDivScaled(fmt, x, y, Max(0, fmt.p + 2 + BitLen(y.m) - BitLen(x.m)))

RootSticky(n, r) == Sticky(r, BMul(r, r) = n)

\* the root of n = x.m * 2^k, for k even with x.e
FSqrtOf(fmt, x, k, n) ==
  RoundTo(fmt, 0, RootSticky(n, BSqrt(n)), (x.e - k) \div 2 - 1)

FSqrtScaled(fmt, x, k) == FSqrtOf(fmt, x, k, BShl(x.m, k))

FSqrtFrom(fmt, x, k0) == FSqrtScaled(fmt, x, k0 + ((x.e - k0) % 2))

\* sqrt(x) in format fmt: the root is computed to p + 2 bits and a sticky bit
FSqrt(fmt, x) ==
  IF x.k = "nan" THEN NaN
  ELSE IF IsZero(x) THEN x
  ELSE IF x.s = 1 THEN NaN
  ELSE IF x.k = "inf" THEN x
  ELSE FSqrtFrom(fmt, x, Max(0, 2 * (fmt.p + 2) - BitLen(x.m)))

\* x < y as JavaScript decides it: false when either is NaN
FLess(x, y) ==
  IF x.k = "nan" \/ y.k = "nan" THEN FALSE
  ELSE IF x.k = "inf" THEN x.s = 1 /\ ~(y.k = "inf" /\ y.s = 1)
  ELSE IF y.k = "inf" THEN y.s = 0
  ELSE XCmp(x, y) = -1

\* a value of one format converted to format fmt
FConv(fmt, x) == IF x.k = "fin" THEN RoundTo(fmt, x.s, x.m, x.e) ELSE x

\* JavaScript numbers
DAdd(x, y) == FAdd(Binary64, x, y)

DSub(x, y) == FAdd(Binary64, x, Neg(y))

DMul(x, y) == FMul(Binary64, x, y)

DDiv(x, y) == FDiv(Binary64, x, y)

DSqrt(x) == FSqrt(Binary64, x)

\* the Number n * 2^-k for a natural number n below 2^15
Dyadic(n, k) == RoundTo(Binary64, 0, IF n = 0 THEN <<>> ELSE <<n>>, 0 - k)

\* the Number of a small natural number
Num(n) == Dyadic(n, 0)

\* the Number a decimal literal n / d denotes: the nearest binary64 value
Lit(n, d) == DDiv(Num(n), Num(d))

\* the binary32 value a Float32Array slot holds after the Number x is stored
\* into it
Fround(x) == FConv(Binary32, x)

\* the natural number a significand of at most two limbs denotes
SmallValue(m) ==
  IF m = <<>> THEN 0 ELSE IF Len(m) = 1 THEN m[1] ELSE m[1] + Base * m[2]

\* bits 30 .. 0 of the encoding of a binary32 value: the biased exponent and
\* the fraction (the quiet NaN for NaN)
Magnitude32(v) ==
  IF v.k = "nan" THEN 255 * 2^23 + 2^22
  ELSE IF v.k = "inf" THEN 255 * 2^23
  ELSE IF BitLen(v.m) < 24 THEN SmallValue(v.m)
  ELSE (v.e + 150) * 2^23 + (SmallValue(v.m) - 2^23)

\* the 32 bits of a binary32 value, read as a signed integer
Int32Bits(v) ==
  IF v.s = 0 THEN Magnitude32(v) ELSE (Magnitude32(v) - 2^30) - 2^30

\* the word a Float32Array slot holds after the Number x is stored into it
Float32Word(x) == Int32Bits(Fround(x))

(***************************************************************************)
(* The component.  Bounds of the model.                                    *)
(***************************************************************************)
\* animate() runs at most this many times (the call in onMounted included)
MaxFrames == 8

\* at most this many resize events are dispatched
MaxResizes == 2

\* Math.random() starts at one of the first MaxOffset + 1 places of RandomCycle
MaxOffset == 1

\* viewport sizes the window takes, in CSS pixels
Widths == {1280, 1920}

Heights == {720, 1080}

\* window.devicePixelRatio
PixelRatios == {1, 2}

(***************************************************************************)
(* Math.random(): values in [0, 1) that are multiples of 2^-52.  The draws *)
(* the model uses: 0, 1/2 (the coordinate 0), 17/32 and 9/16 (coordinates  *)
(* 0.625 and 1.25, inside the sphere of radius 2), and the largest value   *)
(* 1 - 2^-52.                                                              *)
(***************************************************************************)
RandomMax == DSub(Num(1), Dyadic(1, 52))

Samples == <<Dyadic(17, 5), Dyadic(1, 1), Dyadic(9, 4), Num(0), RandomMax>>

\* place n of the cycle that repeats the sequence cycle (places count from 0)
Cycled(cycle, n) == cycle[(n % Len(cycle)) + 1]

\* the n-th call of Math.random() (from 0) of a stream that starts at place
\* offset of the cycle of samples
Random(offset, n) == Cycled(Samples, offset + n)

(***************************************************************************)
(* Star generation, App.vue lines 36 to 65.                                *)
(***************************************************************************)
starCount == 2000

\* a variant of line 45 with the distance of the comment on line 44 (5 units),
\* for the sensitivity of C8
CommentDistance == Num(5)

minDistance == Num(2)

\* (Math.random() - 0.5) * 20
Coordinate(r) == DMul(DSub(r, Lit(1, 2)), Num(20))

\* Math.sqrt(x * x + y * y + z * z)
Distance(x, y, z) == DSqrt(DAdd(DAdd(DMul(x, x), DMul(y, y)), DMul(z, z)))

\* lines 49 to 51: the coordinates multiplied by scale
ScaledStar(x, y, z, distance, scale) ==
  [x |-> DMul(x, scale), y |-> DMul(y, scale), z |-> DMul(z, scale),
   distance |-> distance, rescaled |-> TRUE]

\* lines 47 to 57: a star nearer than minDistance is moved out along its ray
DistantStar(x, y, z, distance) ==
  IF FLess(distance, minDistance)
  THEN ScaledStar(x, y, z, distance, DDiv(minDistance, distance))
  ELSE [x |-> x, y |-> y, z |-> z, distance |-> distance, rescaled |-> FALSE]

\* lines 46 to 57
PlaceAt(x, y, z) == DistantStar(x, y, z, Distance(x, y, z))

\* lines 40 to 57: the position of a star from its three draws, as Numbers
PlaceStar(rx, ry, rz) == PlaceAt(Coordinate(rx), Coordinate(ry), Coordinate(rz))

\* Math.random() * 0.3 + 0.1
StarSize(r) == DAdd(DMul(r, Lit(3, 10)), Lit(1, 10))

\* the seven words one iteration of the loop stores: the position at, the
\* draws r, g, b and the draw s of the size
StoredStar(at, r, g, b, s) ==
  [x |-> Float32Word(at.x), y |-> Float32Word(at.y), z |-> Float32Word(at.z),
   r |-> Float32Word(r), g |-> Float32Word(g), b |-> Float32Word(b),
   size |-> Float32Word(StarSize(s))]

\* the values of the iteration whose first draw is the n-th of the stream
StarValues(offset, n) ==
  StoredStar(PlaceStar(Random(offset, n), Random(offset, n + 1),
                       Random(offset, n + 2)),
             Random(offset, n + 3), Random(offset, n + 4),
             Random(offset, n + 5), Random(offset, n + 6))

\* the stream is a cycle, so the values of an iteration depend only on the place
\* of its first draw in the cycle; they are computed once per place
StarTable == [q \in 0..(Len(Samples) - 1) |-> StarValues(q, 0)]

\* new Float32Array(n): n slots, each +0 (the word 0); slot j of the array
\* is element j + 1 of the sequence
Float32Array(n) == [j \in 1..n |-> 0]

BufferLength(buf) == Len(buf)

\* buf[j] = v for a typed array: a store outside the array is ignored
Store(buf, j, v) ==
  IF j >= 0 /\ j < Len(buf) THEN [buf EXCEPT ![j + 1] = v] ELSE buf

\* the number of stores made to slot j so far
Count(cnt, j) ==
  IF j >= 0 /\ j < Len(cnt) THEN [cnt EXCEPT ![j + 1] = @ + 1] ELSE cnt

\* lines 32 to 34: the three buffers, and for each slot the stores made to it
NewBuffers ==
  [positions |-> Float32Array(starCount * 3),
   colors    |-> Float32Array(starCount * 3),
   sizes     |-> Float32Array(starCount),
   wpositions |-> [j \in 1..(starCount * 3) |-> 0],
   wcolors    |-> [j \in 1..(starCount * 3) |-> 0],
   wsizes     |-> [j \in 1..starCount |-> 0]]

\* lines 37 to 64: iteration i of the loop
StoreIteration(i, i3, v, b) ==
  [positions |-> Store(Store(Store(b.positions, i3, v.x), i3 + 1, v.y),
                       i3 + 2, v.z),
   colors    |-> Store(Store(Store(b.colors, i3, v.r), i3 + 1, v.g),
                       i3 + 2, v.b),
   sizes     |-> Store(b.sizes, i, v.size),
   wpositions |-> Count(Count(Count(b.wpositions, i3), i3 + 1), i3 + 2),
   wcolors    |-> Count(Count(Count(b.wcolors, i3), i3 + 1), i3 + 2),
   wsizes     |-> Count(b.wsizes, i)]

StarIteration(offset, i, b) ==
  StoreIteration(i, i * 3, StarTable[(offset + 7 * i) % Len(Samples)], b)

\* iterations lo..hi in order (split in halves to bound the recursion depth)
RECURSIVE StarIterations(_, _, _, _)
StarIterations(offset, lo, hi, b) ==
  IF lo > hi THEN b
  ELSE IF lo = hi THEN StarIteration(offset, lo, b)
  ELSE LET mid  == (lo + hi) \div 2
           left == StarIterations(offset, lo, mid, b)
       IN  IF Len(left.sizes) = Len(b.sizes)
           THEN StarIterations(offset, mid + 1, hi, left) ELSE left

\* a variant of line 36 whose loop stops one star early, for the sensitivity
\* of C9
EarlyLastStar == starCount - 2

\* the last value of i for which the loop test i < starCount holds
LastStar == starCount - 1

\* line 36: for (let i = 0; i < starCount; i++)
GenerateStars(offset) == StarIterations(offset, 0, LastStar, NewBuffers)

\* the numbers of stores the slots of the three buffers have seen
SlotWrites(b) ==
  {b.wpositions[j] : j \in DOMAIN b.wpositions}
    \cup {b.wcolors[j] : j \in DOMAIN b.wcolors}
    \cup {b.wsizes[j] : j \in DOMAIN b.wsizes}

\* the loop's result for each start of the random stream, computed once
StarFields == [o \in 0..MaxOffset |-> GenerateStars(o)]

(***************************************************************************)
(* State.  canvas .. animationFrameId are the component's variables (lines *)
(* 5 to 9); stars and starsMaterial are the constants of onMounted that    *)
(* its closures keep; window is the browser: the viewport, the listeners   *)
(* of 'resize', and the list of animation frame callbacks; phase and pc    *)
(* are the component's place in its lifecycle and in animate; hist counts  *)
(* what has happened and is read by no action's guard but the bounds.      *)
(***************************************************************************)
VARIABLES canvas, scene, camera, renderer, animationFrameId, stars,
          starsMaterial, window, offset0, phase, pc, hist, probe

vars == <<canvas, scene, camera, renderer, animationFrameId, stars,
          starsMaterial, window, offset0, phase, pc, hist, probe>>

component == <<canvas, scene, camera, renderer, animationFrameId, stars,
               starsMaterial, window, offset0, phase, pc, hist>>

\* the value of a variable declared with let and never assigned
Undefined == -1

\* JavaScript's truthiness of a number or undefined
Truthy(v) == v # Undefined /\ v # 0

NoScene == [defined |-> FALSE, children |-> {}]

NoCamera == [defined |-> FALSE, aspect |-> NaN, projection |-> NaN]

NoRenderer ==
  [defined |-> FALSE, width |-> 0, height |-> 0, pixelRatio |-> 0,
   renderCalls |-> 0, disposeCalls |-> 0, rendersAfterDispose |-> 0,
   setSizeAfterDispose |-> 0]

NoStars ==
  [defined |-> FALSE, rotationY |-> Num(0), positions |-> <<>>,
   colors |-> <<>>, sizes |-> <<>>]

NoMaterial == [defined |-> FALSE, uTime |-> Num(0)]

NoHist ==
  [frames |-> 0, rotations |-> 0, times |-> 0, resizes |-> 0,
   handled |-> 0, handledAfterUnmount |-> 0, framesAfterUnmount |-> 0,
   cancels |-> <<>>, errors |-> 0, generations |-> 0, slotWrites |-> {}]

NoProbe == [stage |-> "none", draws |-> <<>>, at |-> <<>>, stored |-> <<>>]

\* window.innerWidth / window.innerHeight for each viewport, computed once
WindowAspect == [w \in Widths, h \in Heights |-> DDiv(Num(w), Num(h))]

Init ==
  /\ canvas \in BOOLEAN
  /\ scene = NoScene
  /\ camera = NoCamera
  /\ renderer = NoRenderer
  /\ animationFrameId = Undefined
  /\ stars = NoStars
  /\ starsMaterial = NoMaterial
  /\ window \in [innerWidth : Widths, innerHeight : Heights,
                 devicePixelRatio : PixelRatios, resizeListeners : {0},
                 frameRequests : {{}}, nextHandle : {1}]
  /\ offset0 \in 0..MaxOffset
  /\ phase = "created"
  /\ pc = "idle"
  /\ hist = NoHist
  /\ probe = NoProbe

(***************************************************************************)
(* animate, lines 123 to 133: its statements in the order of the source.   *)
(***************************************************************************)
\* a variant of animate that schedules the next frame last, for the
\* sensitivity of C7
WorkFirstOrder == <<"rotate", "time", "render", "schedule">>

AnimateOrder == <<"schedule", "rotate", "time", "render">>

\* the statement after statement stmt, "idle" after the last
After(stmt) ==
  LET j == CHOOSE n \in 1..Len(AnimateOrder) : AnimateOrder[n] = stmt
  IN  IF j = Len(AnimateOrder) THEN "idle" ELSE AnimateOrder[j + 1]

\* requestAnimationFrame(animate): the callback joins the browser's list and
\* the call returns its handle
RequestAnimationFrame(win) ==
  [win EXCEPT !.frameRequests = @ \cup {win.nextHandle},
              !.nextHandle = @ + 1]

\* cancelAnimationFrame(handle)
CancelAnimationFrame(win, handle) ==
  [win EXCEPT !.frameRequests = @ \ {handle}]

\* a variant of line 124 that does not store the handle, for the sensitivity
\* of C10
ScheduleUnstored ==
  /\ pc = "schedule"
  /\ window' = RequestAnimationFrame(window)
  /\ pc' = After("schedule")
  /\ UNCHANGED <<canvas, scene, camera, renderer, animationFrameId, stars,
                 starsMaterial, offset0, phase, hist, probe>>

\* line 124: animationFrameId = requestAnimationFrame(animate)
AnimateSchedule ==
  /\ pc = "schedule"
  /\ window' = RequestAnimationFrame(window)
  /\ animationFrameId' = window.nextHandle
  /\ pc' = After("schedule")
  /\ UNCHANGED <<canvas, scene, camera, renderer, stars, starsMaterial,
                 offset0, phase, hist, probe>>

\* a variant of line 125 with the step 0.002, for the sensitivity of C4
RotationStepTenfold == Lit(2, 1000)

RotationStep == Lit(2, 10000)

TimeStep == Lit(1, 100)

\* line 125: stars.rotation.y += 0.0002
AnimateRotate ==
  /\ pc = "rotate"
  /\ stars' = [stars EXCEPT !.rotationY = DAdd(@, RotationStep)]
  /\ hist' = [hist EXCEPT !.rotations = @ + 1]
  /\ pc' = After("rotate")
  /\ UNCHANGED <<canvas, scene, camera, renderer, animationFrameId,
                 starsMaterial, window, offset0, phase, probe>>

\* lines 128 to 130: starsMaterial.uniforms.uTime.value += 0.01
AnimateTime ==
  /\ pc = "time"
  /\ starsMaterial' = [starsMaterial EXCEPT !.uTime = DAdd(@, TimeStep)]
  /\ hist' = [hist EXCEPT !.times = @ + 1]
  /\ pc' = After("time")
  /\ UNCHANGED <<canvas, scene, camera, renderer, animationFrameId, stars,
                 window, offset0, phase, probe>>

\* renderer.render(scene, camera)
Render(rnd) ==
  [rnd EXCEPT !.renderCalls = @ + 1,
              !.rendersAfterDispose =
                 IF rnd.disposeCalls > 0 THEN @ + 1 ELSE @]

\* line 132
AnimateRender ==
  /\ pc = "render"
  /\ renderer' = Render(renderer)
  /\ pc' = After("render")
  /\ UNCHANGED <<canvas, scene, camera, animationFrameId, stars,
                 starsMaterial, window, offset0, phase, hist, probe>>

\* the browser runs an animation frame callback: it takes the request off its
\* list and calls animate
Frame ==
  /\ pc = "idle"
  /\ hist.frames < MaxFrames
  /\ \E handle \in window.frameRequests :
       window' = [window EXCEPT !.frameRequests = @ \ {handle}]
  /\ pc' = AnimateOrder[1]
  /\ hist' = [hist EXCEPT !.frames = @ + 1,
                          !.framesAfterUnmount =
                             IF phase = "unmounted" THEN @ + 1 ELSE @]
  /\ UNCHANGED <<canvas, scene, camera, renderer, animationFrameId, stars,
                 starsMaterial, offset0, phase, probe>>

(***************************************************************************)
(* onMounted, lines 11 to 135.                                             *)
(***************************************************************************)
\* line 12: if (!canvas.value) return
HasCanvas(cnv) == cnv

\* a variant of onMounted that builds no camera, for the sensitivity of C6
CameraNotBuilt(win) == NoCamera

\* lines 18 and 19: new THREE.PerspectiveCamera(75, innerWidth / innerHeight, ...)
NewCamera(win) ==
  [defined |-> TRUE, aspect |-> WindowAspect[win.innerWidth, win.innerHeight],
   projection |-> WindowAspect[win.innerWidth, win.innerHeight]]

\* lines 22 to 24: new THREE.WebGLRenderer(...), setSize, setPixelRatio
NewRenderer(win) ==
  [NoRenderer EXCEPT !.defined = TRUE, !.width = win.innerWidth,
                     !.height = win.innerHeight,
                     !.pixelRatio = win.devicePixelRatio]

\* lines 30 to 69 and 111: the point cloud over the generated buffers
NewStars(b) ==
  [defined |-> TRUE, rotationY |-> Num(0), positions |-> b.positions,
   colors |-> b.colors, sizes |-> b.sizes]

\* lines 72 to 76: uniforms: { uTime: { value: 0 }, ... }
NewMaterial == [defined |-> TRUE, uTime |-> Num(0)]

\* line 120: window.addEventListener('resize', handleResize)
AddResizeListener(win) == [win EXCEPT !.resizeListeners = @ + 1]

Mount ==
  /\ phase = "created"
  /\ phase' = "mounted"
  /\ IF ~HasCanvas(canvas)
     THEN UNCHANGED <<scene, camera, renderer, stars, starsMaterial, window,
                      pc, hist>>
     ELSE LET b == StarFields[offset0]
          IN  /\ scene' = [defined |-> TRUE, children |-> {"stars"}]
              /\ camera' = NewCamera(window)
              /\ renderer' = NewRenderer(window)
              /\ stars' = NewStars(b)
              /\ starsMaterial' = NewMaterial
              /\ window' = AddResizeListener(window)
              \* line 134: animate()
              /\ pc' = AnimateOrder[1]
              /\ hist' = [hist EXCEPT !.frames = @ + 1,
                                      !.generations = @ + 1,
                                      !.slotWrites = SlotWrites(b)]
  /\ UNCHANGED <<canvas, animationFrameId, offset0, probe>>

(***************************************************************************)
(* handleResize, lines 115 to 119, and the dispatch of a resize event.     *)
(***************************************************************************)
\* lines 116 and 117: camera.aspect = ...; camera.updateProjectionMatrix()
ResizedCamera(cam, win) ==
  [cam EXCEPT !.aspect = WindowAspect[win.innerWidth, win.innerHeight],
              !.projection = WindowAspect[win.innerWidth, win.innerHeight]]

\* a variant of handleResize without line 118, for the sensitivity of C5
StaleRenderer(rnd, win) == rnd

\* line 118: renderer.setSize(window.innerWidth, window.innerHeight)
ResizedRenderer(rnd, win) ==
  [rnd EXCEPT !.width = win.innerWidth, !.height = win.innerHeight,
              !.setSizeAfterDispose =
                 IF rnd.disposeCalls > 0 THEN @ + 1 ELSE @]

\* the viewport takes the size w x h and the browser fires 'resize' at window:
\* every registered listener runs before anything else does
Resize ==
  /\ pc = "idle"
  /\ hist.resizes < MaxResizes
  /\ \E w \in Widths, h \in Heights :
       LET win == [window EXCEPT !.innerWidth = w, !.innerHeight = h]
       IN  /\ window' = win
           /\ IF win.resizeListeners = 0
              THEN /\ UNCHANGED <<camera, renderer>>
                   /\ hist' = [hist EXCEPT !.resizes = @ + 1]
              ELSE IF ~(camera.defined /\ renderer.defined)
              THEN \* a property of undefined is read: TypeError
                   /\ UNCHANGED <<camera, renderer>>
                   /\ hist' = [hist EXCEPT !.resizes = @ + 1,
                                           !.handled = @ + 1,
                                           !.errors = @ + 1]
              ELSE /\ camera' = ResizedCamera(camera, win)
                   /\ renderer' = ResizedRenderer(renderer, win)
                   /\ hist' = [hist EXCEPT
                        !.resizes = @ + 1,
                        !.handled = @ + 1,
                        !.handledAfterUnmount =
                           IF phase = "unmounted" THEN @ + 1 ELSE @]
  /\ UNCHANGED <<canvas, scene, animationFrameId, stars, starsMaterial,
                 offset0, phase, pc, probe>>

(***************************************************************************)
(* onUnmounted, lines 137 to 142.                                          *)
(***************************************************************************)
\* a variant of lines 138 to 140 without the cancel, for the sensitivity of C1
CancelNothing(win, id) == win

\* lines 138 to 140: if (animationFrameId) cancelAnimationFrame(animationFrameId)
CancelPending(win, id) ==
  IF Truthy(id) THEN CancelAnimationFrame(win, id) ELSE win

\* a variant of line 141 without the optional chaining (renderer.dispose()),
\* for the sensitivity of C3
DisposeUnguarded(rnd) == IF rnd.defined THEN "called" ELSE "TypeError"

\* line 141: renderer?.dispose() calls dispose, or does nothing when renderer
\* is undefined
DisposeOutcome(rnd) == IF rnd.defined THEN "called" ELSE "skipped"

Unmount ==
  /\ phase = "mounted"
  /\ pc = "idle"
  /\ phase' = "unmounted"
  /\ window' = CancelPending(window, animationFrameId)
  /\ renderer' = IF DisposeOutcome(renderer) = "called"
                 THEN [renderer EXCEPT !.disposeCalls = @ + 1]
                 ELSE renderer
  /\ hist' = [hist EXCEPT
       !.cancels = IF window' # window \/ Truthy(animationFrameId)
                   THEN Append(@, [handle |-> animationFrameId,
                                   live |-> animationFrameId
                                              \in window.frameRequests])
                   ELSE @,
       !.errors = IF DisposeOutcome(renderer) = "TypeError"
                  THEN @ + 1 ELSE @]
  /\ UNCHANGED <<canvas, scene, camera, animationFrameId, stars,
                 starsMaterial, offset0, pc, probe>>

Next ==
  \/ Mount
  \/ AnimateSchedule
  \/ AnimateRotate
  \/ AnimateTime
  \/ AnimateRender
  \/ Frame
  \/ Resize
  \/ Unmount

Spec == Init /\ [][Next]_vars

(***************************************************************************)
(* The placement of one star, lines 40 to 56, on its own: the three draws  *)
(* range over all the samples.                                             *)
(***************************************************************************)
SampleSet == {Samples[n] : n \in 1..Len(Samples)}

InitStars ==
  /\ canvas = FALSE
  /\ scene = NoScene
  /\ camera = NoCamera
  /\ renderer = NoRenderer
  /\ animationFrameId = Undefined
  /\ stars = NoStars
  /\ starsMaterial = NoMaterial
  /\ window = [innerWidth |-> 1920, innerHeight |-> 1080,
               devicePixelRatio |-> 1, resizeListeners |-> 0,
               frameRequests |-> {}, nextHandle |-> 1]
  /\ offset0 = 0
  /\ phase = "created"
  /\ pc = "idle"
  /\ hist = NoHist
  /\ \E rx \in SampleSet, ry \in SampleSet, rz \in SampleSet :
       probe = [stage |-> "drawn", draws |-> <<rx, ry, rz>>, at |-> <<>>,
                stored |-> <<>>]

\* lines 40 to 52
Place ==
  /\ probe.stage = "drawn"
  /\ probe' = [probe EXCEPT
       !.stage = "placed",
       !.at = PlaceStar(probe.draws[1], probe.draws[2], probe.draws[3])]
  /\ UNCHANGED component

\* lines 54 to 56: positions[i3] = x, ... into the Float32Array
StoreStar ==
  /\ probe.stage = "placed"
  /\ probe' = [probe EXCEPT
       !.stage = "stored",
       !.stored = <<Fround(probe.at.x), Fround(probe.at.y),
                    Fround(probe.at.z)>>]
  /\ UNCHANGED component

NextStars == Place \/ StoreStar

SpecStars == InitStars /\ [][NextStars]_vars

(***************************************************************************)
(* Properties of the lifecycle, under Spec.                                *)
(***************************************************************************)
WithCanvas == HasCanvas(canvas)

\* C1: after a mount with a canvas, any frames and resizes, and the unmount:
\* the unmount cancelled the callback that was pending (the one cancel hit a
\* live request), no callback is pending, no frame callback ran and no render
\* happened after the unmount, and dispose was called exactly once (and never
\* before the unmount).
C1_UnmountStopsLoop ==
  WithCanvas =>
    /\ phase # "unmounted" => renderer.disposeCalls = 0 /\ hist.cancels = <<>>
    /\ phase = "unmounted" =>
          /\ window.frameRequests = {}
          /\ Len(hist.cancels) = 1
          /\ hist.cancels[1].live
          /\ hist.framesAfterUnmount = 0
          /\ renderer.rendersAfterDispose = 0
          /\ renderer.disposeCalls = 1

C1_Witness ==
  /\ WithCanvas
  /\ phase = "unmounted"
  /\ hist.frames >= 3
  /\ hist.handled > hist.handledAfterUnmount
  /\ hist.resizes = MaxResizes

\* C2 as the specification states it: after the unmount no resize listener is
\* registered, the handler has not run since the unmount, and the size of the
\* disposed renderer has not been set.
C2_ListenerRemoved ==
  phase = "unmounted" =>
    /\ window.resizeListeners = 0
    /\ hist.handledAfterUnmount = 0
    /\ renderer.setSizeAfterDispose = 0

\* C3: without a canvas the mount builds nothing, registers no listener and
\* schedules no callback, and in every state (before and after the mount,
\* after resizes, after the unmount) animate has not run, nothing has been
\* rendered, the handler has not run and no error has been raised.
C3_NoCanvasNoOp ==
  ~WithCanvas =>
    /\ ~scene.defined /\ ~camera.defined /\ ~renderer.defined
    /\ ~stars.defined /\ ~starsMaterial.defined
    /\ window.resizeListeners = 0
    /\ window.frameRequests = {}
    /\ animationFrameId = Undefined
    /\ pc = "idle"
    /\ hist.frames = 0
    /\ hist.handled = 0
    /\ renderer.renderCalls = 0
    /\ renderer.disposeCalls = 0
    /\ hist.errors = 0

C3_Witness ==
  /\ ~WithCanvas
  /\ phase = "unmounted"
  /\ hist.resizes = MaxResizes

\* C5: while mounted (with a canvas), in every state (so right after the mount
\* and right after every resize event, with no state in between in which the
\* viewport has changed and the handler has not run) the camera's aspect and
\* projection are viewport width / viewport height and the renderer's size is
\* the viewport's.
C5_SurfaceMatchesViewport ==
  WithCanvas /\ phase = "mounted" =>
    /\ camera.aspect = WindowAspect[window.innerWidth, window.innerHeight]
    /\ camera.projection = camera.aspect
    /\ renderer.width = window.innerWidth
    /\ renderer.height = window.innerHeight

C5_Witness ==
  /\ WithCanvas
  /\ phase = "mounted"
  /\ hist.handled = MaxResizes
  /\ renderer.width * 9 # renderer.height * 16

\* C6: in every state in which the resize handler has run or a frame has been
\* rendered, the scene, the camera, the renderer and the point cloud exist and
\* the point cloud is in the scene.
C6_BuiltBeforeUse ==
  hist.handled > 0 \/ renderer.renderCalls > 0 =>
    /\ scene.defined /\ camera.defined /\ renderer.defined
    /\ stars.defined /\ starsMaterial.defined
    /\ "stars" \in scene.children

C6_Witness ==
  /\ phase = "mounted"
  /\ hist.handled > 0
  /\ renderer.renderCalls > 1

\* C7: in every run of animate the next frame is requested and its handle is
\* stored first, then the rotation is stepped, then the time, then the scene
\* is rendered once: at each statement the statements before it have run
\* once more than those after it, the request made by this run is pending
\* throughout its work, and between runs (while mounted) a request is pending.
C7_AnimateOrder ==
  /\ pc = "schedule" =>
        /\ hist.rotations = hist.frames - 1
        /\ hist.times = hist.frames - 1
        /\ renderer.renderCalls = hist.frames - 1
  /\ pc = "rotate" =>
        /\ animationFrameId \in window.frameRequests
        /\ hist.rotations = hist.frames - 1
        /\ hist.times = hist.frames - 1
        /\ renderer.renderCalls = hist.frames - 1
  /\ pc = "time" =>
        /\ animationFrameId \in window.frameRequests
        /\ hist.rotations = hist.frames
        /\ hist.times = hist.frames - 1
        /\ renderer.renderCalls = hist.frames - 1
  /\ pc = "render" =>
        /\ animationFrameId \in window.frameRequests
        /\ hist.rotations = hist.frames
        /\ hist.times = hist.frames
        /\ renderer.renderCalls = hist.frames - 1
  /\ pc = "idle" =>
        /\ hist.rotations = hist.frames
        /\ hist.times = hist.frames
        /\ renderer.renderCalls = hist.frames
        /\ WithCanvas /\ phase = "mounted" => window.frameRequests # {}

C7_Witness ==
  /\ pc = "render"
  /\ hist.frames >= 2
  /\ animationFrameId \in window.frameRequests

\* C10: between the mount (with a canvas) and the unmount at most one callback
\* is pending and, except while animate is at its first statement (the fired
\* request consumed, the next not yet made), exactly one is, with the stored
\* handle its handle; the unmount issues one cancel, for a live request.
C10_OnePendingCallback ==
  WithCanvas =>
    /\ Cardinality(window.frameRequests) <= 1
    /\ phase = "mounted" /\ pc # "schedule" =>
          window.frameRequests = {animationFrameId}
    /\ phase = "mounted" /\ pc = "schedule" => window.frameRequests = {}
    /\ \A n \in 1..Len(hist.cancels) : hist.cancels[n].live
    /\ Len(hist.cancels) = (IF phase = "unmounted" THEN 1 ELSE 0)

C10_Witness ==
  /\ WithCanvas
  /\ phase = "unmounted"
  /\ hist.frames >= 3
  /\ Len(hist.cancels) = 1
  /\ hist.cancels[1].handle = hist.frames

(***************************************************************************)
(* Exact arithmetic on finite values, for the numerical properties.        *)
(***************************************************************************)
\* the natural number n, below 2^15, as a sequence of limbs
Small(n) == IF n = 0 THEN <<>> ELSE <<n>>

\* the exact sum of two finite values, as a value (not rounded)
ExactSum(x, y) == RoundlessTriple(XAdd(x, y))

\* the exact square of a finite value
ExactSquare(x) == Fin(0, BMul(x.m, x.m), 2 * x.e)

\* the exact absolute value of x - y
ExactDistance(x, y) == [ExactSum(x, Neg(y)) EXCEPT !.s = 0]

\* v is n * num / den up to the relative error n * 2^-52:
\* |v * den - n * num| <= n * n * num * 2^-52
WithinAccumulationTolerance(v, num, den, n) ==
  /\ v.k = "fin"
  /\ XCmp(ExactDistance(Fin(v.s, BMulSmall(v.m, den), v.e),
                        Fin(0, Small(n * num), 0)),
          Fin(0, Small(n * n * num), -52)) <= 0

\* the sequence sums with its last element plus step appended
AppendSum(sums, step) == Append(sums, DAdd(sums[Len(sums)], step))

\* 0 + step + ... + step for 0 .. n additions of Numbers, in order
RECURSIVE Sums(_, _)
Sums(step, n) ==
  IF n = 0 THEN <<Num(0)>>
  ELSE AppendSum(Sums(step, n - 1), step)

\* the values rotation.y and uTime take: after n runs of their statement
RotationSums == Sums(RotationStep, MaxFrames + 1)

TimeSums == Sums(TimeStep, MaxFrames + 1)

\* n * step, each as one multiplication of Numbers, for n = 0 .. last
RECURSIVE Products(_, _)
Products(step, last) ==
  IF last < 0 THEN <<>>
  ELSE Append(Products(step, last - 1), DMul(Num(last), step))

RotationProducts == Products(RotationStep, MaxFrames + 1)

TimeProducts == Products(TimeStep, MaxFrames + 1)

\* C4 as the specification states it: after N runs of animate the rotation is
\* N * 0.0002 and the time uniform is N * 0.01 (as Numbers).
C4_ExactProduct ==
  pc = "idle" =>
    /\ stars.rotationY = RotationProducts[hist.frames + 1]
    /\ starsMaterial.uTime = TimeProducts[hist.frames + 1]

\* C4, amended: the rotation and the time uniform are 0 stepped by 0.0002 and
\* by 0.01 once per run of animate, by Number additions (so never reset and
\* changed nowhere else); after N runs they are N * 0.0002 and N * 0.01 up
\* to the relative error N * 2^-52 of the accumulation.
C4_AccumulatedSteps ==
  /\ stars.rotationY = RotationSums[hist.rotations + 1]
  /\ starsMaterial.uTime = TimeSums[hist.times + 1]
  /\ pc = "idle" => hist.rotations = hist.frames /\ hist.times = hist.frames
  /\ WithinAccumulationTolerance(stars.rotationY, 2, 10000, hist.rotations)
  /\ WithinAccumulationTolerance(starsMaterial.uTime, 1, 100, hist.times)

\* seven runs of animate, a resize handled in between: the rotation is not
\* the product
C4_Witness ==
  /\ pc = "idle"
  /\ hist.frames >= 7
  /\ hist.handled > 0
  /\ stars.rotationY # RotationProducts[hist.frames + 1]
  /\ starsMaterial.uTime = TimeSums[hist.frames + 1]

\* C9: the star field is generated once, by the mount, and not before: the
\* position, color and size buffers have 6000, 6000 and 2000 slots (2000
\* stars), the loop stored into every slot exactly once, and in every later
\* state (after frames, resizes and the unmount) the three buffers are what
\* the loop left.
C9_StarFieldFixed ==
  /\ ~stars.defined => hist.generations = 0 /\ stars.positions = <<>>
  /\ stars.defined =>
        /\ hist.generations = 1
        /\ BufferLength(stars.positions) = 6000
        /\ BufferLength(stars.colors) = 6000
        /\ BufferLength(stars.sizes) = 2000
        /\ hist.slotWrites = {1}
        /\ stars.positions = StarFields[offset0].positions
        /\ stars.colors = StarFields[offset0].colors
        /\ stars.sizes = StarFields[offset0].sizes

C9_Witness ==
  /\ stars.defined
  /\ pc = "idle"
  /\ hist.frames >= 2
  /\ hist.handled > 0
  /\ stars.rotationY # Num(0)

(***************************************************************************)
(* Properties of the placement of a star, under SpecStars.                 *)
(***************************************************************************)
\* the natural number n, below 2^15, as a value
ExactNatural(n) == Fin(0, Small(n), 0)

\* the coordinates drawn, before any rescaling (lines 40 to 42)
Drawn == [n \in 1..3 |-> Coordinate(probe.draws[n])]

\* the draw at the origin, whose distance is 0
ZeroDraw == \A n \in 1..3 : IsZero(Drawn[n])

\* x^2 + y^2 + z^2 of the stored position, exactly
StoredNormSquared ==
  ExactSum(ExactSum(ExactSquare(probe.stored[1]), ExactSquare(probe.stored[2])),
           ExactSquare(probe.stored[3]))

\* (2 + d * 2^-21)^2 for d = -1 or 1: the squares of the distances one part
\* in 2^22 below and above 2
NearTwoSquared(d) ==
  ExactSquare(Fin(0, IF d < 0 THEN BSub(BShl(BOne, 22), BOne)
                     ELSE BAdd(BShl(BOne, 22), BOne), -21))

StoredFinite == \A n \in 1..3 : probe.stored[n].k = "fin"

====
